---- MODULE Spec2Model ----
(***************************************************************************)
(* Marks submission against the TestResult collection.                     *)
(*                                                                         *)
(* The three handlers that write TestResult documents are modelled step by *)
(* step, one action per database round trip that reads or writes the       *)
(* TestResult collection, so that concurrent requests interleave at the    *)
(* handlers' awaits:                                                       *)
(*   submitTestMarks   controllers/testController.js                       *)
(*   addOrUpdateMarks  controllers/MarksController.js                      *)
(*   addTestMarks      earlier version of the test controller              *)
(* together with the two handlers that write Test documents, updateTest    *)
(* and deleteTest of controllers/testController.js.                        *)
(*                                                                         *)
(* A TestResult document is a record that has exactly the fields that were *)
(* written to it: a field nobody set is absent from the record's domain.   *)
(* Query middleware: findOneAndUpdate and bulkWrite do not run the         *)
(* schema's pre('save') hook; only document.save() does.  An upsert that   *)
(* inserts applies the schema defaults (setDefaultsOnInsert).              *)
(* An upsert is not atomic in the database: the match and the insert are   *)
(* two steps, and the unique index {test, student} arbitrates the insert.  *)
(*                                                                         *)
(* The User collection is not written by these handlers and is a fixed     *)
(* table, so a handler's user lookups are folded into its next step.       *)
(* A request's entries are drawn one at a time, when the handler reaches   *)
(* them; no handler looks ahead in its array.  Two requests are served,    *)
(* in any interleaving, with at most MaxEntries entries between them.      *)
(* Numbers that need not be integers (percentage) are pairs <<n, d>>       *)
(* standing for n / d.  An academicYear "Y-(Y+1)" is the pair <<Y, Y+1>>.  *)
(* Fields `remarks` and `status` are not modelled.                         *)
(***************************************************************************)
EXTENDS Integers, Sequences, FiniteSets, TLC

\* ------------------------------------------------------------ bounds ----
MaxBatch   == 2    \* longest results / marks array of a request
MaxEntries == 2    \* entries of all requests together; an updateTest or
                   \* deleteTest request counts as one entry
MaxMarks   == 100  \* largest maxMarks the grade computation is applied to
MaxRecords == 2    \* records of the collection an aggregation is applied to

\* the two requests
ReqIds == {1, 2}

\* ------------------------------------------------- fixed collections ----
\* users collection: _id |-> role, isActive
users ==
  (1 :> [role |-> "student", isActive |-> TRUE])  @@
  (2 :> [role |-> "student", isActive |-> TRUE])  @@
  (3 :> [role |-> "student", isActive |-> FALSE]) @@
  (4 :> [role |-> "teacher", isActive |-> TRUE])  @@
  (5 :> [role |-> "admin",   isActive |-> TRUE])  @@
  (7 :> [role |-> "teacher", isActive |-> TRUE])

\* tests collection at start: test 1 is active, test 2 was soft-deleted.
InitTests ==
  (1 :> [maxMarks |-> 3, passingMarks |-> 2, isActive |-> TRUE,
         createdBy |-> 4]) @@
  (2 :> [maxMarks |-> 3, passingMarks |-> 2, isActive |-> FALSE,
         createdBy |-> 4])

\* ------------------------------------------------------------ inputs ----
TestIdInputs  == {1, 2, 3}           \* 3 names no test
StudentInputs == {1, 2, 3, 4, 6}     \* 6 names no user
\* req.user of a teacherOrAdmin route: the k-th request is made by the
\* teacher (odd k) or by the admin (even k)
Grader(k)     == IF k % 2 = 1 THEN 4 ELSE 5
NaN           == <<>>                \* marks that parseFloat cannot read
MarksInputs   == {NaN, <<-1>>, <<1>>, <<3>>, <<4>>}
NumberInputs  == MarksInputs \ {NaN}
\* req.user of an updateTest or deleteTest request: the test's creator, the
\* admin, or another teacher
TeacherOrAdmin == {4, 5, 7}
\* req.body of updateTest
UpdateInputs  == {[maxMarks |-> 2],
                  [maxMarks |-> 4, passingMarks |-> 1],
                  [maxMarks |-> 2, passingMarks |-> 2]}

\* tests, results: the collections.  req, now, admitted, writes: the
\* requests being served, the clock and the bookkeeping of the writes.
\* calc: the input and the result of one grade computation.  out: the
\* response of one aggregation.  The last two stay empty while requests
\* are served.
VARIABLES tests, results, req, now, admitted, writes, calc, out
vars == <<tests, results, req, now, admitted, writes, calc, out>>

NoCalc == [none |-> TRUE]
NoOut  == [none |-> TRUE]

NoTest == [none |-> TRUE]
NoCur  == [none |-> TRUE]

Has(d, f) == f \in DOMAIN d

\* ------------------------------------------------- grade computation ----
\* number >= integer, for numbers kept as <<n, d>> with d > 0
Geq(p, k) == p[1] >= k * p[2]

\* Math.round(x * 100) / 100 for x = a / b >= 0, as hundredths over 100
Round2(a, b) == <<(2 * 100 * a + b) \div (2 * b), 100>>

\* the band table without its D band
gradeOfNoD(percentage) ==
  IF Geq(percentage, 90) THEN "A+"
  ELSE IF Geq(percentage, 80) THEN "A"
  ELSE IF Geq(percentage, 70) THEN "B+"
  ELSE IF Geq(percentage, 60) THEN "B"
  ELSE IF Geq(percentage, 50) THEN "C+"
  ELSE IF Geq(percentage, 40) THEN "C"
  ELSE "F"

\* the descending band table, first match wins
gradeOf(percentage) ==
  IF Geq(percentage, 90) THEN "A+"
  ELSE IF Geq(percentage, 80) THEN "A"
  ELSE IF Geq(percentage, 70) THEN "B+"
  ELSE IF Geq(percentage, 60) THEN "B"
  ELSE IF Geq(percentage, 50) THEN "C+"
  ELSE IF Geq(percentage, 40) THEN "C"
  ELSE IF Geq(percentage, 35) THEN "D"
  ELSE "F"

\* ------------------------------------------------------- collections ----
\* User.findOne({ _id: student, role: 'student', isActive: true })
UserFindOneStudent(student) ==
  /\ student \in DOMAIN users
  /\ users[student].role = "student"
  /\ users[student].isActive

\* Test.findOne({ _id: id, isActive: true })
TestFindOneActive(id) ==
  IF id \in DOMAIN tests /\ tests[id].isActive THEN tests[id] ELSE NoTest

\* Test.findById(id)
TestFindById(id) ==
  IF id \in DOMAIN tests THEN tests[id] ELSE NoTest

\* a filter that leaves out the student
MatchingTestOnly(coll, test, student) == {d \in coll : d.test = test}

\* documents of the collection matching { test, student }
Matching(coll, test, student) ==
  {d \in coll : d.test = test /\ d.student = student}

\* a collection without the index accepts every insert
NoUniqueIndex(coll, test, student) == TRUE

\* the unique index { test: 1, student: 1 }: may a document with this key
\* be inserted?
UniqueIndexAllows(coll, test, student) ==
  Matching(coll, test, student) = {}

\* an update that leaves the fields a stored document already has
ApplySetOnInsertOnly(d, set) == d @@ set

\* update operators applied to a stored document
ApplySet(d, set) == set @@ d

\* the range check without its upper end
MarksRejectedBelowZero(marks, test) ==
  \/ marks = NaN
  \/ marks[1] < 0

\* isNaN(marks) || marks < 0 || marks > test.maxMarks
MarksRejected(marks, test) ==
  \/ marks = NaN
  \/ marks[1] < 0
  \/ marks[1] > test.maxMarks

\* ---------------------------------------------------- request state ----
\* One record per request: the handler's local variables, its position
\* (pc), the response (status, 0 while none was sent; saved and errors are
\* savedResults.length and errors.length), and bookkeeping of what the
\* batch contained so far: how many entries were invalid and how many
\* database operations of the request failed.
IdleReq ==
  [pc |-> "idle", handler |-> "none", testId |-> 0, user |-> 0,
   n |-> 0, i |-> 0, test |-> NoTest, cur |-> NoCur, at |-> 0,
   saved |-> 0, errors |-> 0, status |-> 0, invalid |-> 0, failed |-> 0]

\* the request after its response was sent
Responded(q, status) ==
  [IdleReq EXCEPT !.pc = "done", !.status = status,
                  !.saved = q.saved, !.errors = q.errors]

\* an entry is invalid: marks not a number, below 0 or above the test's
\* maxMarks, or a student that is missing, inactive or not a student
EntryInvalid(student, marks, test) ==
  \/ marks = NaN
  \/ marks[1] < 0
  \/ marks[1] > test.maxMarks
  \/ student \notin DOMAIN users
  \/ ~users[student].isActive
  \/ users[student].role # "student"

\* bookkeeping of one more entry of the batch
Seen(q, student, marks) ==
  [q EXCEPT !.i = @ + 1,
            !.invalid = @ + (IF EntryInvalid(student, marks, q.test) THEN 1 ELSE 0)]

\* the last write applied to a key (marks, grader and time of the
\* submission that made it, and the test's maxMarks when it was made), the
\* time of the first one, and whether the write before it carried other
\* marks (changed) or came from another request (other)
NoteWrite(key, marks, by, at) ==
  IF key \in DOMAIN writes
  THEN [writes EXCEPT ![key] =
          [@ EXCEPT !.changed = (writes[key].marks # marks),
                    !.other = (writes[key].by # by),
                    !.marks = marks, !.by = by, !.at = at,
                    !.max = tests[key[1]].maxMarks]]
  ELSE (key :> [firstAt |-> at, changed |-> FALSE, other |-> FALSE,
                marks |-> marks, by |-> by, at |-> at,
                max |-> tests[key[1]].maxMarks]) @@ writes

\* new Date().getFullYear() at time t: the clock's second tick falls in the
\* next calendar year
YearOf(t) == 2024 + (t \div 2)

\* `${year}-${year + 1}`
AcademicYear(t) == <<YearOf(t), YearOf(t) + 1>>

\* schema defaults a Mongoose upsert applies to the inserted document
InsertDefaults(at) ==
  [isPassed |-> FALSE, submittedAt |-> at, gradedAt |-> at, isActive |-> TRUE,
   academicYear |-> AcademicYear(at), createdAt |-> at]

\* the document an upsert inserts: filter fields, $set, $setOnInsert, defaults
UpsertDoc(id, test, student, set, setOnInsert, at) ==
  [_id |-> id] @@ set @@ setOnInsert @@ [test |-> test, student |-> student]
    @@ InsertDefaults(at)

\* arrival of a request: the handler's argument checks and its Test lookup
\* (`found`).  castFails: the marks array holds a value Mongoose cannot cast.
\* The clock advances with every arrival.
Receive(r, h, testId, n, found, castFails) ==
  /\ req[r].pc = "idle"
  /\ \A r2 \in ReqIds : r2 < r => req[r2].pc # "idle"
  /\ admitted + n <= MaxEntries
  /\ now' = now + 1
  /\ admitted' = admitted + n
  /\ LET q == [IdleReq EXCEPT !.handler = h, !.testId = testId,
                              !.user = Grader(now + 1), !.n = n,
                              !.test = found,
                              !.at = now + 1]
     IN req' = [req EXCEPT ![r] =
          IF n = 0 THEN Responded(q, 400)
          ELSE IF found = NoTest THEN Responded(q, 404)
          ELSE IF castFails THEN Responded(q, 500)
          ELSE [q EXCEPT !.pc = "loop"]]
  /\ UNCHANGED <<tests, results, writes>>

\* the response after the last entry
Finish(r, h) ==
  /\ req[r].handler = h /\ req[r].pc = "loop"
  /\ req[r].i = req[r].n
  /\ req' = [req EXCEPT ![r] = Responded(req[r], 200)]
  /\ UNCHANGED <<tests, results, now, admitted, writes>>

\* ---------------------------------------------------- submitTestMarks ----
testResultData(testId, student, marks, test, user, at) ==
  [test |-> testId, student |-> student, marksObtained |-> marks,
   maxMarks |-> test.maxMarks, passingMarks |-> test.passingMarks,
   gradedBy |-> user, gradedAt |-> at, isActive |-> TRUE,
   academicYear |-> AcademicYear(at)]

SubmitStart(r) ==
  \E testId \in TestIdInputs, n \in 0..MaxBatch :
    Receive(r, "submitTestMarks", testId, n,
            TestFindOneActive(testId), FALSE)

\* one iteration of the loop up to the findOneAndUpdate: an existing
\* document is updated in place, a missing one goes on to the insert.
\* outcome: "ok", or the findOneAndUpdate rejects ("writeFails"), or the
\* populate after it rejects ("populateFails").
SubmitEntry(r) ==
  /\ req[r].handler = "submitTestMarks" /\ req[r].pc = "loop"
  /\ req[r].i < req[r].n
  /\ \E student \in StudentInputs, marksObtained \in MarksInputs,
        outcome \in {"ok", "writeFails", "populateFails"} :
       LET q    == req[r]
           seen == Seen(q, student, marksObtained)
           key  == <<q.testId, student>>
           hit  == Matching(results, q.testId, student)
       IN
       IF ~UserFindOneStudent(student) \/ MarksRejected(marksObtained, q.test)
       THEN /\ outcome = "ok"
            /\ req' = [req EXCEPT ![r] = [seen EXCEPT !.errors = @ + 1]]
            /\ UNCHANGED <<results, writes>>
       ELSE LET data == testResultData(q.testId, student, marksObtained[1],
                                       q.test, q.user, now)
            IN
            IF outcome = "writeFails"
            THEN /\ req' = [req EXCEPT ![r] =
                      [seen EXCEPT !.errors = @ + 1, !.failed = @ + 1]]
                 /\ UNCHANGED <<results, writes>>
            ELSE IF hit = {}
            THEN /\ outcome = "ok"
                 /\ req' = [req EXCEPT ![r] =
                      [q EXCEPT !.pc = "insert",
                                !.cur = [student |-> student,
                                         marks |-> marksObtained,
                                         data |-> data]]]
                 /\ UNCHANGED <<results, writes>>
            ELSE \E d \in hit :
                 /\ results' = (results \ {d}) \cup {ApplySet(d, data)}
                 /\ writes' = NoteWrite(key, marksObtained[1], q.user,
                                        data.gradedAt)
                 /\ req' = [req EXCEPT ![r] =
                      IF outcome = "ok"
                      THEN [seen EXCEPT !.saved = @ + 1]
                      ELSE [seen EXCEPT !.errors = @ + 1, !.failed = @ + 1]]
  /\ UNCHANGED <<tests, now, admitted>>

\* the insert of an upsert that matched nothing.  When another request
\* inserted the key meanwhile, the unique index refuses the insert: the
\* server either retries the operation as an update or reports E11000.
SubmitInsert(r) ==
  /\ req[r].handler = "submitTestMarks" /\ req[r].pc = "insert"
  /\ \E outcome \in {"ok", "duplicateKey", "populateFails"} :
       LET q    == req[r]
           c    == q.cur
           key  == <<q.testId, c.student>>
           seen == [Seen(q, c.student, c.marks) EXCEPT !.pc = "loop", !.cur = NoCur]
           done == IF outcome = "ok"
                   THEN [seen EXCEPT !.saved = @ + 1]
                   ELSE [seen EXCEPT !.errors = @ + 1, !.failed = @ + 1]
           note == NoteWrite(key, c.marks[1], q.user, c.data.gradedAt)
       IN
       IF UniqueIndexAllows(results, q.testId, c.student)
       THEN /\ outcome # "duplicateKey"
            /\ results' = results \cup
                 {UpsertDoc(<<r, q.i>>, q.testId, c.student, c.data,
                            <<>>, c.data.gradedAt)}
            /\ writes' = note
            /\ req' = [req EXCEPT ![r] = done]
       ELSE IF outcome = "duplicateKey"
       THEN /\ req' = [req EXCEPT ![r] = done]
            /\ UNCHANGED <<results, writes>>
       ELSE \E d \in Matching(results, q.testId, c.student) :
            /\ results' = (results \ {d}) \cup {ApplySet(d, c.data)}
            /\ writes' = note
            /\ req' = [req EXCEPT ![r] = done]
  /\ UNCHANGED <<tests, now, admitted>>

\* after the loop: the result count is refreshed and the response sent.
\* (resultCount and lastMarksUpdate are not paths of the Test schema.)
SubmitFinish(r) == Finish(r, "submitTestMarks")

\* --------------------------------------------------- addOrUpdateMarks ----
\* the $set of one bulkWrite operation
marksSet(marksObtained, test) ==
  LET percentage == <<marksObtained * 100, test.maxMarks>>
  IN [marksObtained |-> marksObtained,
      percentage |-> percentage,
      isPassed |-> (marksObtained >= test.passingMarks),
      grade |-> gradeOf(percentage)]

\* its $setOnInsert
marksSetOnInsert(user, at) ==
  [submittedAt |-> at, createdAt |-> at, gradedBy |-> user]

AddOrUpdateStart(r) ==
  \E testId \in TestIdInputs, n \in 0..MaxBatch,
     castFails \in BOOLEAN :
    Receive(r, "addOrUpdateMarks", testId, n,
            TestFindById(testId), castFails)

\* one updateOne of the ordered bulkWrite, up to its match
AddOrUpdateOp(r) ==
  /\ req[r].handler = "addOrUpdateMarks" /\ req[r].pc = "loop"
  /\ req[r].i < req[r].n
  /\ \E student \in StudentInputs, marksObtained \in NumberInputs,
        outcome \in {"ok", "writeFails"} :
       LET q    == req[r]
           seen == Seen(q, student, marksObtained)
           key  == <<q.testId, student>>
           hit  == Matching(results, q.testId, student)
           set  == marksSet(marksObtained[1], q.test)
       IN
       IF outcome = "writeFails"
       THEN /\ req' = [req EXCEPT ![r] = Responded(q, 500)]
            /\ UNCHANGED <<results, writes>>
       ELSE IF hit = {}
       THEN /\ req' = [req EXCEPT ![r] =
                 [q EXCEPT !.pc = "insert",
                           !.cur = [student |-> student,
                                    marks |-> marksObtained,
                                    data |-> set]]]
            /\ UNCHANGED <<results, writes>>
       ELSE \E d \in hit :
            /\ results' = (results \ {d}) \cup {ApplySet(d, set)}
            /\ writes' = NoteWrite(key, marksObtained[1], q.user, q.at)
            /\ req' = [req EXCEPT ![r] = [seen EXCEPT !.saved = @ + 1]]
  /\ UNCHANGED <<tests, now, admitted>>

\* the insert of an updateOne that matched nothing; a refused insert that
\* is not retried rejects the bulkWrite, and the operations after it are
\* not executed
AddOrUpdateInsert(r) ==
  /\ req[r].handler = "addOrUpdateMarks" /\ req[r].pc = "insert"
  /\ \E outcome \in {"ok", "duplicateKey"} :
       LET q    == req[r]
           c    == q.cur
           key  == <<q.testId, c.student>>
           done == [Seen(q, c.student, c.marks) EXCEPT
                      !.pc = "loop", !.cur = NoCur, !.saved = @ + 1]
           note == NoteWrite(key, c.marks[1], q.user, q.at)
       IN
       IF UniqueIndexAllows(results, q.testId, c.student)
       THEN /\ outcome = "ok"
            /\ results' = results \cup
                 {UpsertDoc(<<r, q.i>>, q.testId, c.student, c.data,
                            marksSetOnInsert(q.user, q.at), q.at)}
            /\ writes' = note
            /\ req' = [req EXCEPT ![r] = done]
       ELSE IF outcome = "duplicateKey"
       THEN /\ req' = [req EXCEPT ![r] = Responded(q, 500)]
            /\ UNCHANGED <<results, writes>>
       ELSE \E d \in Matching(results, q.testId, c.student) :
            /\ results' = (results \ {d}) \cup {ApplySet(d, c.data)}
            /\ writes' = note
            /\ req' = [req EXCEPT ![r] = done]
  /\ UNCHANGED <<tests, now, admitted>>

AddOrUpdateFinish(r) == Finish(r, "addOrUpdateMarks")

\* ------------------------------------------------------- addTestMarks ----
\* paths the schema requires of a document being saved
RequiredPaths == {"test", "student", "marksObtained", "maxMarks", "passingMarks"}

\* pre('save') of the TestResult schema on a document that is not new:
\* doc is the document as the handler assigned it, loaded as it was read
preSave(doc, loaded, at) ==
  IF doc.marksObtained # loaded.marksObtained
  THEN LET percentage == IF doc.maxMarks > 0
                         THEN Round2(doc.marksObtained * 100, doc.maxMarks)
                         ELSE <<0, 100>>
       IN [percentage |-> percentage,
           grade |-> gradeOf(percentage),
           isPassed |-> (doc.marksObtained >= doc.passingMarks),
           gradedAt |-> at] @@ doc
  ELSE doc

\* the paths save() sends: those whose value differs from the one read
Modified(doc, loaded) ==
  LET paths == {f \in DOMAIN doc : f \notin DOMAIN loaded \/ doc[f] # loaded[f]}
  IN [f \in paths |-> doc[f]]

AddTestStart(r) ==
  \E testId \in TestIdInputs, n \in 0..MaxBatch :
    Receive(r, "addTestMarks", testId, n,
            TestFindOneActive(testId), FALSE)

\* one iteration of the loop up to TestResult.findOne.  A key without a
\* document leads to new TestResult({...}).save(), which the schema's
\* required maxMarks and passingMarks reject.
AddTestEntry(r) ==
  /\ req[r].handler = "addTestMarks" /\ req[r].pc = "loop"
  /\ req[r].i < req[r].n
  /\ \E student \in StudentInputs, marksObtained \in MarksInputs,
        outcome \in {"ok", "readFails"} :
       LET q    == req[r]
           seen == Seen(q, student, marksObtained)
           hit  == Matching(results, q.testId, student)
       IN
       IF ~UserFindOneStudent(student) \/ MarksRejected(marksObtained, q.test)
       THEN /\ outcome = "ok"
            /\ req' = [req EXCEPT ![r] = [seen EXCEPT !.errors = @ + 1]]
       ELSE IF outcome = "readFails" \/ hit = {}
       THEN req' = [req EXCEPT ![r] =
              [seen EXCEPT !.errors = @ + 1, !.failed = @ + 1]]
       ELSE \E d \in hit :
            req' = [req EXCEPT ![r] =
              [q EXCEPT !.pc = "save",
                        !.cur = [student |-> student,
                                 marks |-> marksObtained,
                                 loaded |-> d]]]
  /\ UNCHANGED <<tests, results, now, admitted, writes>>

\* testResult.save() of the document read before
AddTestSave(r) ==
  /\ req[r].handler = "addTestMarks" /\ req[r].pc = "save"
  /\ \E outcome \in {"ok", "writeFails", "populateFails"} :
       LET q      == req[r]
           c      == q.cur
           key    == <<q.testId, c.student>>
           seen   == [Seen(q, c.student, c.marks) EXCEPT !.pc = "loop", !.cur = NoCur]
           fail   == [seen EXCEPT !.errors = @ + 1, !.failed = @ + 1]
           assigned == [marksObtained |-> c.marks[1],
                        isPassed |-> (c.marks[1] >= q.test.passingMarks),
                        gradedBy |-> q.user,
                        gradedAt |-> now] @@ c.loaded
       IN
       IF ~(RequiredPaths \subseteq DOMAIN c.loaded) \/ outcome = "writeFails"
       THEN /\ req' = [req EXCEPT ![r] = fail]
            /\ UNCHANGED <<results, writes>>
       ELSE LET doc == preSave(assigned, c.loaded, now)
            IN \E d \in {x \in results : x._id = c.loaded._id} :
                 /\ results' = (results \ {d}) \cup
                                 {ApplySet(d, Modified(doc, c.loaded))}
                 /\ writes' = NoteWrite(key, c.marks[1], q.user, now)
                 /\ req' = [req EXCEPT ![r] =
                      IF outcome = "ok"
                      THEN [seen EXCEPT !.saved = @ + 1]
                      ELSE fail]
  /\ UNCHANGED <<tests, now, admitted>>

AddTestFinish(r) == Finish(r, "addTestMarks")

\* --------------------------------------------- updateTest, deleteTest ----
\* arrival of an updateTest or deleteTest request, up to its
\* Test.findOne({ _id, isActive: true })
TestRequest(r, h, testId, user, body) ==
  /\ req[r].pc = "idle"
  /\ \A r2 \in ReqIds : r2 < r => req[r2].pc # "idle"
  /\ admitted + 1 <= MaxEntries
  /\ now' = now + 1
  /\ admitted' = admitted + 1
  /\ LET found == TestFindOneActive(testId)
         q == [IdleReq EXCEPT !.handler = h, !.testId = testId,
                              !.user = user, !.n = 1, !.test = found,
                              !.at = now + 1]
     IN req' = [req EXCEPT ![r] =
          IF found = NoTest THEN Responded(q, 404)
          ELSE [q EXCEPT !.pc = "found", !.cur = body]]
  /\ UNCHANGED <<tests, results, writes>>

\* req.user.role !== 'admin' && test.createdBy !== req.user._id
NotAuthorized(user, test) ==
  users[user].role # "admin" /\ test.createdBy # user

UpdateTestStart(r) ==
  \E testId \in TestIdInputs, user \in TeacherOrAdmin, body \in UpdateInputs :
    TestRequest(r, "updateTest", testId, user, body)

\* after the lookup: permission check, the check of passingMarks against
\* maxMarks when the body has both, Test.findByIdAndUpdate and the response
UpdateTestWrite(r) ==
  /\ req[r].handler = "updateTest" /\ req[r].pc = "found"
  /\ \E outcome \in {"ok", "writeFails"} :
       LET q          == req[r]
           updateData == q.cur
       IN
       IF NotAuthorized(q.user, q.test)
       THEN /\ outcome = "ok"
            /\ req' = [req EXCEPT ![r] = Responded(q, 403)]
            /\ UNCHANGED tests
       ELSE IF /\ Has(updateData, "maxMarks") /\ updateData.maxMarks # 0
               /\ Has(updateData, "passingMarks") /\ updateData.passingMarks # 0
               /\ updateData.passingMarks >= updateData.maxMarks
       THEN /\ outcome = "ok"
            /\ req' = [req EXCEPT ![r] = Responded(q, 400)]
            /\ UNCHANGED tests
       ELSE IF outcome = "writeFails"
       THEN /\ req' = [req EXCEPT ![r] = Responded(q, 500)]
            /\ UNCHANGED tests
       ELSE /\ tests' = [tests EXCEPT ![q.testId] = updateData @@ @]
            /\ req' = [req EXCEPT ![r] = Responded(q, 200)]
  /\ UNCHANGED <<results, now, admitted, writes>>

DeleteTestStart(r) ==
  \E testId \in TestIdInputs, user \in TeacherOrAdmin :
    TestRequest(r, "deleteTest", testId, user, NoCur)

\* a collection in which the lookup finds nothing
NoActiveResult(coll, testId) == FALSE

\* TestResult.exists({ test: testId, isActive: true })
HasActiveResult(coll, testId) ==
  \E d \in coll : d.test = testId /\ Has(d, "isActive") /\ d.isActive

\* after the lookup: permission check and TestResult.exists
DeleteTestExists(r) ==
  /\ req[r].handler = "deleteTest" /\ req[r].pc = "found"
  /\ \E outcome \in {"ok", "readFails"} :
       LET q == req[r]
       IN
       IF NotAuthorized(q.user, q.test)
       THEN /\ outcome = "ok"
            /\ req' = [req EXCEPT ![r] = Responded(q, 403)]
       ELSE IF outcome = "readFails"
       THEN req' = [req EXCEPT ![r] = Responded(q, 500)]
       ELSE req' = [req EXCEPT ![r] =
              [q EXCEPT !.pc = "checked",
                        !.cur = [hasResults |->
                                   HasActiveResult(results, q.testId)]]]
  /\ UNCHANGED <<tests, results, now, admitted, writes>>

\* if (hasResults) 400, else the soft delete by Test.findByIdAndUpdate and
\* the response.  (deletedAt and deletedBy are not paths of the Test schema.)
DeleteTestWrite(r) ==
  /\ req[r].handler = "deleteTest" /\ req[r].pc = "checked"
  /\ \E outcome \in {"ok", "writeFails"} :
       LET q == req[r]
       IN
       IF q.cur.hasResults
       THEN /\ outcome = "ok"
            /\ req' = [req EXCEPT ![r] = Responded(q, 400)]
            /\ UNCHANGED tests
       ELSE IF outcome = "writeFails"
       THEN /\ req' = [req EXCEPT ![r] = Responded(q, 500)]
            /\ UNCHANGED tests
       ELSE /\ tests' = [tests EXCEPT ![q.testId].isActive = FALSE]
            /\ req' = [req EXCEPT ![r] = Responded(q, 200)]
  /\ UNCHANGED <<results, now, admitted, writes>>

\* ------------------------------------------------------ specification ----
\* collections and requests at start
Idle ==
  /\ tests = InitTests
  /\ results = {}
  /\ req = [r \in ReqIds |-> IdleReq]
  /\ now = 0
  /\ admitted = 0
  /\ writes = <<>>

Init ==
  /\ Idle
  /\ calc = NoCalc
  /\ out = NoOut

Next ==
  /\ UNCHANGED <<calc, out>>
  /\ \E r \in ReqIds :
    \/ SubmitStart(r)
    \/ SubmitEntry(r)
    \/ SubmitInsert(r)
    \/ SubmitFinish(r)
    \/ AddOrUpdateStart(r)
    \/ AddOrUpdateOp(r)
    \/ AddOrUpdateInsert(r)
    \/ AddOrUpdateFinish(r)
    \/ AddTestStart(r)
    \/ AddTestEntry(r)
    \/ AddTestSave(r)
    \/ AddTestFinish(r)
    \/ UpdateTestStart(r)
    \/ UpdateTestWrite(r)
    \/ DeleteTestStart(r)
    \/ DeleteTestExists(r)
    \/ DeleteTestWrite(r)

Spec == Init /\ [][Next]_vars

\* ------------------------------------------------------ test lifecycle ----
\* createTest and updateTest on a tests collection that starts empty.  A
\* createTest request counts as one entry of the budget, like updateTest.

\* maxMarks and passingMarks of a createTest body, as JSON numbers
CreateInputs == [maxMarks : {0, 2, 3}, passingMarks : {0, 1, 2, 3}]

\* the pre('save') hook of the Test schema lets the document pass
testPreSave(doc) == ~(doc.passingMarks >= doc.maxMarks)

\* the validation of createTest finds an error in the marks: a value that
\* is 0 counts as missing
createRejects(body) ==
  \/ body.maxMarks = 0 \/ body.maxMarks <= 0
  \/ body.passingMarks = 0 \/ body.passingMarks < 0
  \/ (body.maxMarks # 0 /\ body.passingMarks # 0
      /\ body.passingMarks >= body.maxMarks)

\* POST /api/tests
CreateTest ==
  /\ admitted + 1 <= MaxEntries
  /\ admitted' = admitted + 1
  /\ now' = now + 1
  /\ \E body \in CreateInputs, user \in TeacherOrAdmin,
        outcome \in {"ok", "saveFails"} :
       LET testData == [maxMarks |-> body.maxMarks,
                        passingMarks |-> body.passingMarks,
                        createdBy |-> user, isActive |-> TRUE]
           resp(st) == [handler |-> "createTest", status |-> st]
       IN IF createRejects(body)
          THEN /\ outcome = "ok"
               /\ out' = resp(400)
               /\ UNCHANGED tests
          ELSE IF ~testPreSave(testData) \/ outcome = "saveFails"
          THEN /\ out' = resp(500)
               /\ UNCHANGED tests
          ELSE /\ tests' = Append(tests, testData)
               /\ out' = resp(201)
  /\ UNCHANGED <<results, req, writes, calc>>

TestInit ==
  /\ tests = <<>>
  /\ results = {}
  /\ req = [r \in ReqIds |-> IdleReq]
  /\ now = 0
  /\ admitted = 0
  /\ writes = <<>>
  /\ calc = NoCalc
  /\ out = NoOut

TestNext ==
  \/ CreateTest
  \/ /\ UNCHANGED <<calc, out>>
     /\ \E r \in ReqIds :
          \/ UpdateTestStart(r)
          \/ UpdateTestWrite(r)

TestSpec == TestInit /\ [][TestNext]_vars

\* ------------------------------------------------- grade computation ----
\* The two places that compute percentage, grade and isPassed, applied to
\* every integer marksObtained in 0..maxMarks for maxMarks in 1..MaxMarks.
PassingInputs == {0, 40, 101}

GradeInit ==
  /\ Idle
  /\ out = NoOut
  /\ \E maxMarks \in 1..MaxMarks, passingMarks \in PassingInputs :
       \E marksObtained \in 0..maxMarks :
         calc = [marksObtained |-> marksObtained, maxMarks |-> maxMarks,
                 passingMarks |-> passingMarks, by |-> "none"]

\* pre('save') on a document whose marksObtained was modified
GradePreSave ==
  /\ calc.by = "none"
  /\ LET doc    == [marksObtained |-> calc.marksObtained,
                    maxMarks |-> calc.maxMarks,
                    passingMarks |-> calc.passingMarks]
         loaded == [doc EXCEPT !.marksObtained = @ + 1]
         saved  == preSave(doc, loaded, 0)
     IN calc' = [calc EXCEPT !.by = "preSave"] @@
                [percentage |-> saved.percentage, grade |-> saved.grade,
                 isPassed |-> saved.isPassed]
  /\ UNCHANGED <<tests, results, req, now, admitted, writes, out>>

\* the map callback of addOrUpdateMarks
GradeMarksSet ==
  /\ calc.by = "none"
  /\ LET set == marksSet(calc.marksObtained,
                         [maxMarks |-> calc.maxMarks,
                          passingMarks |-> calc.passingMarks])
     IN calc' = [calc EXCEPT !.by = "addOrUpdateMarks"] @@
                [percentage |-> set.percentage, grade |-> set.grade,
                 isPassed |-> set.isPassed]
  /\ UNCHANGED <<tests, results, req, now, admitted, writes, out>>

GradeNext == GradePreSave \/ GradeMarksSet

GradeSpec == GradeInit /\ [][GradeNext]_vars

\* ------------------------------------------------------ aggregations ----
\* The read-only handlers and statics, applied to collections of up to
\* MaxRecords records as the submission handlers insert them.
\*
\* Numbers of a response: an integer where the code can only produce one
\* (counts, marks), else a pair <<n, d>> for n / d, NaN, or for the string
\* that toFixed(1) returns the triple <<n, 10, "toFixed">> (<<"NaN">> for
\* the string "NaN").

\* tests the records were graded against; test 4 was removed afterwards
PastTests ==
  (1 :> [maxMarks |-> 3, passingMarks |-> 2, isActive |-> TRUE,
         createdBy |-> 4, subject |-> 10]) @@
  (2 :> [maxMarks |-> 3, passingMarks |-> 2, isActive |-> TRUE,
         createdBy |-> 4, subject |-> 10]) @@
  (3 :> [maxMarks |-> 3, passingMarks |-> 2, isActive |-> TRUE,
         createdBy |-> 4, subject |-> 20]) @@
  (4 :> [maxMarks |-> 3, passingMarks |-> 2, isActive |-> TRUE,
         createdBy |-> 4, subject |-> 20])

\* the tests collection the aggregations read
AggTests == [t \in {1, 2, 3} |-> PastTests[t]]

\* the subjects collection
subjects == {10, 20}

AggStudents == {1, 2}

\* how a record came to be: the handler that inserted it, the marks, the time
RecordInputs ==
  [by : {"submitTestMarks", "addOrUpdateMarks"}, marks : {1, 3}, at : {1, 2}]

\* the document the handler`s upsert inserted
InsertedRecord(test, student, in) ==
  IF in.by = "submitTestMarks"
  THEN UpsertDoc(<<test, student>>, test, student,
                 testResultData(test, student, in.marks, PastTests[test],
                                Grader(in.at), in.at),
                 <<>>, in.at)
  ELSE UpsertDoc(<<test, student>>, test, student,
                 marksSet(in.marks, PastTests[test]),
                 marksSetOnInsert(Grader(in.at), in.at), in.at)

\* a collection of at most MaxRecords records of the given tests
AggInitOver(testIds) ==
  /\ tests = AggTests
  /\ req = [r \in ReqIds |-> IdleReq]
  /\ now = 0
  /\ admitted = 0
  /\ writes = <<>>
  /\ calc = NoCalc
  /\ out = NoOut
  /\ \E keys \in SUBSET (testIds \X AggStudents) :
       /\ Cardinality(keys) <= MaxRecords
       /\ \E in \in [keys -> RecordInputs] :
            results = {InsertedRecord(k[1], k[2], in[k]) : k \in keys}

\* JavaScript addition of numbers, where undefined or NaN gives NaN
NumAdd(x, y) ==
  IF x = NaN \/ y = NaN THEN NaN
  ELSE <<x[1] * y[2] + y[1] * x[2], x[2] * y[2]>>

\* reduce((sum, r) => sum + r.<integer field>, 0), f the field per record
RECURSIVE SumInt(_)
SumInt(f) ==
  IF DOMAIN f = {} THEN 0
  ELSE LET x == CHOOSE x \in DOMAIN f : TRUE
       IN f[x] + SumInt([y \in DOMAIN f \ {x} |-> f[y]])

\* reduce((sum, r) => sum + r.<field>, 0) for a field that may be missing
RECURSIVE SumNum(_)
SumNum(f) ==
  IF DOMAIN f = {} THEN <<0, 1>>
  ELSE LET x == CHOOSE x \in DOMAIN f : TRUE
       IN NumAdd(SumNum([y \in DOMAIN f \ {x} |-> f[y]]), f[x])

\* r.percentage and r.grade of a document read from the collection
PercentageOf(d) == IF Has(d, "percentage") THEN d.percentage ELSE NaN
GradeKey(d)     == IF Has(d, "grade") THEN d.grade ELSE "undefined"

\* Math.round(x * 100) / 100 of a number that may be NaN, x = p / n
Round2Num(p, n) == IF p = NaN THEN NaN ELSE Round2(p[1], p[2] * n)

\* (a / b).toFixed(1)
Fixed1(a, b) == <<(2 * 10 * a + b) \div (2 * b), 10, "toFixed">>

\* (p / n).toFixed(1) of a number that may be NaN
Fixed1Num(p, n) == IF p = NaN THEN <<"NaN">> ELSE Fixed1(p[1], p[2] * n)

MaxOf(S) == CHOOSE x \in S : \A y \in S : y <= x
MinOf(S) == CHOOSE x \in S : \A y \in S : x <= y

\* a distribution accumulated in an object that outlives the call: the
\* counts of the response before are still in it
GradeDistributionShared(res) ==
  LET before == IF Has(calc, "statistics") THEN calc.statistics.gradeDistribution
                ELSE <<>>
      keys   == {GradeKey(d) : d \in res}
  IN [g \in keys \cup DOMAIN before |->
        (IF g \in DOMAIN before THEN before[g] ELSE 0)
          + Cardinality({d \in res : GradeKey(d) = g})]

\* results.reduce((dist, r) => { dist[r.grade] = (dist[r.grade] || 0) + 1 })
GradeDistribution(res) ==
  [g \in {GradeKey(d) : d \in res} |->
     Cardinality({d \in res : GradeKey(d) = g})]

\* statistics that divide without looking at the number of records
EmptyStatisticsNaN ==
  [totalStudents |-> 0, averageMarks |-> NaN, averagePercentage |-> NaN,
   passRate |-> NaN, highestMarks |-> 0, lowestMarks |-> 0,
   gradeDistribution |-> <<>>]

\* the statistics of no records
EmptyStatistics ==
  [totalStudents |-> 0, averageMarks |-> <<0, 1>>,
   averagePercentage |-> <<0, 1>>, passRate |-> <<0, 1>>,
   highestMarks |-> 0, lowestMarks |-> 0, gradeDistribution |-> <<>>]

\* TestResult.find({ test: testId, isActive: true })
ActiveResults(coll, testId) ==
  {d \in coll : d.test = testId /\ Has(d, "isActive") /\ d.isActive}

\* TestResult.getClassStatistics(testId)
getClassStatistics(coll, testId) ==
  LET res == ActiveResults(coll, testId)
      n   == Cardinality(res)
  IN IF n = 0 THEN EmptyStatistics
     ELSE LET totalMarks      == SumInt([d \in res |-> d.marksObtained])
              totalPercentage == SumNum([d \in res |-> PercentageOf(d)])
              passedCount     == Cardinality({d \in res : d.isPassed})
          IN [totalStudents |-> n,
              averageMarks |-> Round2(totalMarks, n),
              averagePercentage |-> Round2Num(totalPercentage, n),
              passRate |-> Round2(passedCount * 100, n),
              highestMarks |-> MaxOf({d.marksObtained : d \in res}),
              lowestMarks |-> MinOf({d.marksObtained : d \in res}),
              gradeDistribution |-> GradeDistribution(res)]

\* the stats object of the getTestStatistics handler
getTestStatistics(coll, testId) ==
  LET res == ActiveResults(coll, testId)
      n   == Cardinality(res)
  IN IF n = 0 THEN EmptyStatistics
     ELSE LET totalMarks      == SumInt([d \in res |-> d.marksObtained])
              totalPercentage == SumNum([d \in res |-> PercentageOf(d)])
              passedCount     == Cardinality({d \in res : d.isPassed})
          IN [totalStudents |-> n,
              averageMarks |-> Fixed1(totalMarks, n),
              averagePercentage |-> Fixed1Num(totalPercentage, n),
              passRate |-> Fixed1(passedCount * 100, n),
              highestMarks |-> MaxOf({d.marksObtained : d \in res}),
              lowestMarks |-> MinOf({d.marksObtained : d \in res}),
              gradeDistribution |-> GradeDistribution(res)]

\* tests an aggregation is asked about, 4 the removed one
AggTestIds == {1, 2, 3, 4}

\* a call of the static
GetClassStatistics ==
  /\ out = NoOut
  /\ \E testId \in AggTestIds :
       out' = [handler |-> "getClassStatistics", id |-> testId,
               status |-> 200,
               statistics |-> getClassStatistics(results, testId)]
  /\ UNCHANGED <<tests, results, req, now, admitted, writes, calc>>

\* GET /api/tests/:id/statistics
GetTestStatistics ==
  /\ out = NoOut
  /\ \E testId \in AggTestIds :
       out' = IF TestFindOneActive(testId) = NoTest
              THEN [handler |-> "getTestStatistics", id |-> testId,
                    status |-> 404]
              ELSE [handler |-> "getTestStatistics", id |-> testId,
                    status |-> 200,
                    statistics |-> getTestStatistics(results, testId)]
  /\ UNCHANGED <<tests, results, req, now, admitted, writes, calc>>

\* ---- per-student aggregations

\* the month of time t, beside YearOf: odd times fall in December, even
\* times in the following January
MonthOf(t) == IF t % 2 = 1 THEN 12 ELSE 1

\* the decimal digits of n, zero-padded to width w
RECURSIVE Digits(_, _)
Digits(n, w) ==
  IF w = 0 THEN <<>> ELSE Append(Digits(n \div 10, w - 1), n % 10)

\* date.toISOString().slice(0, 7): the characters of "YYYY-MM", without
\* the dash, which is the same character at the same place in every period
IsoMonth(t) == Digits(YearOf(t), 4) \o Digits(MonthOf(t), 2)

\* a.localeCompare(b) < 0 for strings of digits: the first differing
\* character decides
RECURSIVE LocaleBefore(_, _)
LocaleBefore(a, b) ==
  IF a = <<>> \/ b = <<>> THEN a = <<>> /\ b # <<>>
  ELSE IF Head(a) # Head(b) THEN Head(a) < Head(b)
  ELSE LocaleBefore(Tail(a), Tail(b))

\* a comparator that looks at the month and not at the year
byMonthOnly(a, b) == LocaleBefore(SubSeq(a.month, 5, 6), SubSeq(b.month, 5, 6))

\* (a, b) => a.month.localeCompare(b.month)
byMonth(a, b) == LocaleBefore(a.month, b.month)

\* the orders in which a query or a $group stage can return the set S
SeqsOf(S) ==
  {f \in [1..Cardinality(S) -> S] :
     \A i, j \in 1..Cardinality(S) : i # j => f[i] # f[j]}

\* TestResult.find({ student }).sort({ createdAt: -1 }); documents of equal
\* createdAt come in any order
FindByStudentSorted(coll, student) ==
  {rs \in SeqsOf({d \in coll : d.student = student}) :
     \A i, j \in 1..Len(rs) : i < j => rs[i].createdAt >= rs[j].createdAt}

\* a populated subject path that refers to no subject
NoSubject == 0

\* .populate('test'): the referenced test, or null when there is none
PopulateTest(d) == IF d.test \in DOMAIN tests THEN tests[d.test] ELSE NoTest

\* nested populate of test.subject: the subject, or null when there is none
PopulateSubject(t) ==
  IF Has(t, "subject") /\ t.subject \in subjects THEN t.subject ELSE NoSubject

\* a grouping key that tells the tests of a subject apart
subjectIdPerTest(d) == <<PopulateSubject(PopulateTest(d)), d.test>>

\* result.test.subject._id.toString()
subjectId(d) == PopulateSubject(PopulateTest(d))

\* keys of an object in insertion order, ks the keys in order of assignment
RECURSIVE FirstSeen(_)
FirstSeen(ks) ==
  IF ks = <<>> THEN <<>>
  ELSE LET rest == FirstSeen(SubSeq(ks, 1, Len(ks) - 1))
           last == ks[Len(ks)]
       IN IF \E i \in 1..Len(rest) : rest[i] = last THEN rest
          ELSE Append(rest, last)

\* parseFloat((a / b * 100).toFixed(1)), in tenths
Percent1(a, b) == <<(2 * 10 * 100 * a + b) \div (2 * b), 10>>

\* { $round: [a / b * 100, 1] }, which rounds a half to the even digit
RoundEven1(a, b) ==
  LET n == 10 * 100 * a
      q == n \div b
      m == n % b
  IN <<IF 2 * m > b \/ (2 * m = b /\ q % 2 = 1) THEN q + 1 ELSE q, 10>>

\* the sums of the records rs[i], i in idx, of one group, the maxMarks
\* read from the joined test
GroupSums(rs, idx) ==
  [totalMarks |-> SumInt([i \in idx |-> rs[i].marksObtained]),
   totalMaxMarks |-> SumInt([i \in idx |-> PopulateTest(rs[i]).maxMarks]),
   totalTests |-> Cardinality(idx),
   passedTests |-> Cardinality({i \in idx : rs[i].isPassed})]

\* the forEach of getStudentPerformance throws a TypeError on a record
\* whose populated test or subject is null
PerformanceThrows(rs) ==
  \E i \in 1..Len(rs) :
    \/ PopulateTest(rs[i]) = NoTest
    \/ PopulateSubject(PopulateTest(rs[i])) = NoSubject

\* Object.values(subjectPerformance) with the percentages
subjectPerformanceOf(rs) ==
  LET keys == FirstSeen([i \in 1..Len(rs) |-> subjectId(rs[i])])
  IN [j \in 1..Len(keys) |->
        LET idx == {i \in 1..Len(rs) : subjectId(rs[i]) = keys[j]}
            sum == GroupSums(rs, idx)
            first == CHOOSE i \in idx : \A i2 \in idx : i <= i2
        IN [subject |-> PopulateSubject(PopulateTest(rs[first])),
            results |-> [i \in idx |-> rs[i]._id],
            percentage |-> IF sum.totalMaxMarks > 0
                           THEN Percent1(sum.totalMarks, sum.totalMaxMarks)
                           ELSE <<0, 1>>,
            passRate |-> IF sum.totalTests > 0
                         THEN Percent1(sum.passedTests, sum.totalTests)
                         ELSE <<0, 1>>] @@ sum]

\* Object.values(monthlyPerformance) with the percentages, sorted
monthlyPerformanceOf(rs) ==
  LET keys == FirstSeen([i \in 1..Len(rs) |-> IsoMonth(rs[i].createdAt)])
  IN SortSeq([j \in 1..Len(keys) |->
        LET idx == {i \in 1..Len(rs) : IsoMonth(rs[i].createdAt) = keys[j]}
            sum == GroupSums(rs, idx)
        IN [month |-> keys[j],
            totalMarks |-> sum.totalMarks,
            totalMaxMarks |-> sum.totalMaxMarks,
            testsCount |-> sum.totalTests,
            percentage |-> IF sum.totalMaxMarks > 0
                           THEN Percent1(sum.totalMarks, sum.totalMaxMarks)
                           ELSE <<0, 1>>]],
      byMonth)

\* students an aggregation is asked about, 3 an inactive one
AggStudentIds == {1, 2, 3}

\* who asks for a student`s performance: a student or a teacher
Callers == {1, 4}

\* GET /api/students/performance and /api/students/:id/performance
GetStudentPerformance ==
  /\ out = NoOut
  /\ \E studentId \in AggStudentIds, caller \in Callers :
       LET resp == [handler |-> "getStudentPerformance", id |-> studentId]
       IN IF ~UserFindOneStudent(studentId)
          THEN out' = [status |-> 404] @@ resp
          ELSE IF users[caller].role = "student" /\ studentId # caller
          THEN out' = [status |-> 403] @@ resp
          ELSE \E rs \in FindByStudentSorted(results, studentId) :
                 out' = IF PerformanceThrows(rs)
                        THEN [status |-> 500] @@ resp
                        ELSE [status |-> 200,
                              overallResults |-> [i \in 1..Len(rs) |-> rs[i]._id],
                              subjectPerformance |-> subjectPerformanceOf(rs),
                              monthlyPerformance |-> monthlyPerformanceOf(rs)]
                             @@ resp
  /\ UNCHANGED <<tests, results, req, now, admitted, writes, calc>>

\* x / n of a number that may be NaN
NumDiv(x, n) == IF x = NaN THEN NaN ELSE <<x[1], x[2] * n>>

\* x - y of numbers that may be NaN
NumSub(x, y) ==
  IF x = NaN \/ y = NaN THEN NaN
  ELSE <<x[1] * y[2] - y[1] * x[2], x[2] * y[2]>>

\* (a / b) * 100 without rounding; 0 / 0 is NaN
Ratio100(a, b) == IF b = 0 THEN NaN ELSE <<100 * a, b>>

\* x >= k and x < k of a number that may be NaN, false for NaN
NumGeq(x, k)  == x # NaN /\ x[1] >= k * x[2]
NumLess(x, k) == x # NaN /\ x[1] < k * x[2]

\* average of r.percentage over the records rs[i], i in idx
AvgPercentage(rs, idx) ==
  NumDiv(SumNum([i \in idx |-> PercentageOf(rs[i])]), Cardinality(idx))

Grades == {"A+", "A", "B+", "B", "C+", "C", "D", "F"}

\* the counters of gradeDistribution and gradeCount
GradeCount(res) ==
  [g \in Grades |-> Cardinality({d \in res : Has(d, "grade") /\ d.grade = g})]

\* result.test.subject?.toString() of a test that is not null
subjectKey(t) == IF Has(t, "subject") THEN t.subject ELSE NoSubject

\* the analysis of getResultsAnalysis for a non-empty result list
analysisOf(rs) ==
  LET n       == Len(rs)
      all     == 1..n
      months  == FirstSeen([i \in all |-> IsoMonth(rs[i].createdAt)])
      subjs   == FirstSeen([i \in all |-> subjectKey(PopulateTest(rs[i]))])
      perfs   == [j \in 1..Len(subjs) |->
                    LET sum == GroupSums(rs,
                                 {i \in all :
                                    subjectKey(PopulateTest(rs[i])) = subjs[j]})
                    IN [subject |-> subjs[j],
                        percentage |-> Ratio100(sum.totalMarks,
                                                sum.totalMaxMarks)]]
      recent  == {i \in all : i <= 3}
      earlier == {i \in all : i > n - 3}
      improvement == NumSub(AvgPercentage(rs, recent),
                            AvgPercentage(rs, earlier))
      strong(e) == NumGeq(e.percentage, 80)
      weak(e)   == NumLess(e.percentage, 60)
      strengths == SelectSeq(perfs, strong)
      needsImprovement == SelectSeq(perfs, weak)
  IN [totalTests |-> n,
      averageScore |-> AvgPercentage(rs, all),
      improvement |-> improvement,
      gradeDistribution |-> GradeCount({rs[i] : i \in all}),
      monthlyProgress |->
        SortSeq([j \in 1..Len(months) |->
                   LET sum == GroupSums(rs,
                                {i \in all :
                                   IsoMonth(rs[i].createdAt) = months[j]})
                   IN [month |-> months[j],
                       percentage |-> Ratio100(sum.totalMarks,
                                               sum.totalMaxMarks),
                       testsCount |-> sum.totalTests]],
                byMonth),
      subjectPerformance |-> perfs,
      strengths |-> [j \in 1..Len(strengths) |-> strengths[j].subject],
      needsImprovement |->
        [j \in 1..Len(needsImprovement) |-> needsImprovement[j].subject],
      recommendations |->
        (IF NumGeq(improvement, 0) /\ improvement[1] # 0
         THEN <<"improving">> ELSE <<>>) \o
        (IF NumLess(improvement, -5) THEN <<"review">> ELSE <<>>) \o
        (IF strengths # <<>> THEN <<"excel">> ELSE <<>>) \o
        (IF needsImprovement # <<>> THEN <<"focus">> ELSE <<>>)]

\* the analysis of a student without results
EmptyAnalysis ==
  [totalTests |-> 0, averageScore |-> <<0, 1>>, improvement |-> <<0, 1>>,
   strengths |-> <<>>, recommendations |-> <<>>]

\* GET /api/students/results/analysis, asked by a student
GetResultsAnalysis ==
  /\ out = NoOut
  /\ \E studentId \in AggStudents :
       \E rs \in FindByStudentSorted(results, studentId) :
         LET resp == [handler |-> "getResultsAnalysis", id |-> studentId]
         IN out' = IF rs = <<>>
                   THEN [status |-> 200, analysis |-> EmptyAnalysis] @@ resp
                   ELSE IF \E i \in 1..Len(rs) : PopulateTest(rs[i]) = NoTest
                   THEN [status |-> 500] @@ resp
                   ELSE [status |-> 200, analysis |-> analysisOf(rs)] @@ resp
  /\ UNCHANGED <<tests, results, req, now, admitted, writes, calc>>

\* $match { student }, $lookup tests, $unwind: the records of the student
\* whose test exists
JoinTests(coll, student) ==
  {d \in coll : d.student = student /\ d.test \in DOMAIN tests}

\* then $lookup subjects, $unwind: those whose test`s subject exists too
JoinSubjects(coll, student) ==
  {d \in JoinTests(coll, student) :
     PopulateSubject(tests[d.test]) # NoSubject}

\* the $group by subject._id and the $addFields of the dashboard pipeline,
\* for the subject sub of the joined records
dashboardGroup(joined, sub) ==
  LET sum == GroupSums([d \in joined |-> d],
                       {d \in joined : tests[d.test].subject = sub})
  IN [_id |-> sub, subject |-> sub,
      percentage |-> RoundEven1(sum.totalMarks, sum.totalMaxMarks),
      passRate |-> RoundEven1(sum.passedTests, sum.totalTests)] @@ sum

\* the $group and $project of getSubjectWisePerformance
subjectWiseGroup(joined, sub) ==
  LET grp == {d \in joined : tests[d.test].subject = sub}
      sum == GroupSums([d \in joined |-> d], grp)
  IN [_id |-> sub, subject |-> sub,
      averageScore |-> <<sum.totalMarks, sum.totalTests>>,
      percentage |-> IF sum.totalMaxMarks > 0
                     THEN <<100 * sum.totalMarks, sum.totalMaxMarks>>
                     ELSE <<0, 1>>,
      passRate |-> IF sum.totalTests > 0
                   THEN <<100 * sum.passedTests, sum.totalTests>>
                   ELSE <<0, 1>>,
      results |-> {d._id : d \in grp}] @@ sum

\* GET /api/students/dashboard, asked by a student; the upcoming tests and
\* the subjects of the response are read from collections that are not
\* modelled
GetStudentDashboard ==
  /\ out = NoOut
  /\ \E studentId \in AggStudents :
       \E rs \in FindByStudentSorted(results, studentId) :
         LET resp    == [handler |-> "getStudentDashboard", id |-> studentId]
             all     == {d \in results : d.student = studentId}
             sum     == GroupSums([d \in all |-> d], all)
             joined  == JoinSubjects(results, studentId)
             groups  == {tests[d.test].subject : d \in joined}
             divides == \E sub \in groups :
                          \A d \in joined : tests[d.test].subject = sub =>
                            tests[d.test].maxMarks = 0
         IN IF (\E d \in all : PopulateTest(d) = NoTest) \/ divides
            THEN out' = [status |-> 500] @@ resp
            ELSE \E order \in SeqsOf(groups) :
                   out' = [status |-> 200,
                           overallPercentage |->
                             IF sum.totalTests > 0
                             THEN IF sum.totalMaxMarks = 0 THEN NaN
                                  ELSE Percent1(sum.totalMarks,
                                                sum.totalMaxMarks)
                             ELSE <<0, 1>>,
                           passRate |->
                             IF sum.totalTests > 0
                             THEN Percent1(sum.passedTests, sum.totalTests)
                             ELSE <<0, 1>>,
                           totalTests |-> sum.totalTests,
                           passedTests |-> sum.passedTests,
                           gradeDistribution |-> GradeCount(all),
                           recentResults |->
                             [i \in {j \in 1..Len(rs) : j <= 5} |-> rs[i]._id],
                           subjectPerformance |->
                             [j \in 1..Len(order) |->
                                dashboardGroup(joined, order[j])]] @@ resp
  /\ UNCHANGED <<tests, results, req, now, admitted, writes, calc>>

\* TestResult.getSubjectWisePerformance(studentId)
GetSubjectWisePerformance ==
  /\ out = NoOut
  /\ \E studentId \in AggStudentIds :
       LET joined == JoinSubjects(results, studentId)
       IN \E order \in SeqsOf({tests[d.test].subject : d \in joined}) :
            out' = [handler |-> "getSubjectWisePerformance",
                    id |-> studentId, status |-> 200,
                    subjectPerformance |->
                      [j \in 1..Len(order) |->
                         subjectWiseGroup(joined, order[j])]]
  /\ UNCHANGED <<tests, results, req, now, admitted, writes, calc>>

\* the summary of a student without joined records
EmptySummary ==
  [totalTests |-> 0, passedTests |-> 0, totalMarks |-> 0,
   totalMaxMarks |-> 0, averageScore |-> <<0, 1>>]

\* TestResult.getStudentPerformanceSummary(studentId)
GetStudentPerformanceSummary ==
  /\ out = NoOut
  /\ \E studentId \in AggStudentIds :
       LET joined == JoinTests(results, studentId)
           sum    == GroupSums([d \in joined |-> d], joined)
       IN out' = [handler |-> "getStudentPerformanceSummary",
                  id |-> studentId, status |-> 200,
                  summary |->
                    IF joined = {} THEN EmptySummary
                    ELSE [averageScore |->
                            <<sum.totalMarks, sum.totalTests>>] @@ sum]
  /\ UNCHANGED <<tests, results, req, now, admitted, writes, calc>>

\* TestResult.getStudentResults(studentId) with the default options: the
\* active records of the student, newest first
GetStudentResults ==
  /\ out = NoOut
  /\ \E studentId \in AggStudentIds :
       \E rs \in FindByStudentSorted(
                   {d \in results : Has(d, "isActive") /\ d.isActive},
                   studentId) :
         out' = [handler |-> "getStudentResults", id |-> studentId,
                 status |-> 200, list |-> [i \in 1..Len(rs) |-> rs[i]._id]]
  /\ UNCHANGED <<tests, results, req, now, admitted, writes, calc>>

\* TestResult.getTestResults(testId) with the default options: the active
\* records of the test, highest marks first
GetTestResults ==
  /\ out = NoOut
  /\ \E testId \in AggTestIds :
       \E rs \in SeqsOf(ActiveResults(results, testId)) :
         /\ \A i, j \in 1..Len(rs) :
              i < j => rs[i].marksObtained >= rs[j].marksObtained
         /\ out' = [handler |-> "getTestResults", id |-> testId,
                    status |-> 200, list |-> [i \in 1..Len(rs) |-> rs[i]._id]]
  /\ UNCHANGED <<tests, results, req, now, admitted, writes, calc>>

\* parseFloat((x / n).toFixed(1)) of a number that may be NaN, in tenths
Round1Num(x, n) ==
  IF x = NaN THEN NaN
  ELSE <<(2 * 10 * x[1] + x[2] * n) \div (2 * x[2] * n), 10>>

\* GET /api/dashboard/student; the subjects and tests of the response are
\* read from collections that are not modelled
GetDashboardStudent ==
  /\ out = NoOut
  /\ \E caller \in Callers :
       LET resp == [handler |-> "dashboardStudent", id |-> caller]
       IN IF users[caller].role # "student"
          THEN out' = [status |-> 403] @@ resp
          ELSE \E rs \in FindByStudentSorted(results, caller) :
                 LET n == Len(rs)
                 IN out' = [status |-> 200,
                            completedTests |-> n,
                            passedTests |->
                              Cardinality({i \in 1..n : rs[i].isPassed}),
                            averagePercentage |->
                              IF n > 0
                              THEN Round1Num(
                                     SumNum([i \in 1..n |->
                                               PercentageOf(rs[i])]), n)
                              ELSE <<0, 1>>,
                            recentResults |->
                              [i \in {j \in 1..n : j <= 5} |-> rs[i]._id]]
                           @@ resp
  /\ UNCHANGED <<tests, results, req, now, admitted, writes, calc>>

AggInit == AggInitOver({1, 2, 3})

AggNext ==
  \/ GetClassStatistics
  \/ GetTestStatistics
  \/ GetStudentPerformance
  \/ GetResultsAnalysis
  \/ GetStudentDashboard
  \/ GetSubjectWisePerformance
  \/ GetStudentPerformanceSummary
  \/ GetStudentResults
  \/ GetTestResults
  \/ GetDashboardStudent

AggSpec == AggInit /\ [][AggNext]_vars

\* the same aggregations over collections that may hold records of test 4,
\* which is no longer in the tests collection
RemovedInit == AggInitOver(AggTestIds)

RemovedSpec == RemovedInit /\ [][AggNext]_vars

\* the same aggregations over collections in which records may have been
\* soft-removed: isActive cleared from outside, no handler clears it
DeactivatedInit ==
  /\ tests = AggTests
  /\ req = [r \in ReqIds |-> IdleReq]
  /\ now = 0
  /\ admitted = 0
  /\ writes = <<>>
  /\ calc = NoCalc
  /\ out = NoOut
  /\ \E keys \in SUBSET ({1, 2, 3} \X AggStudents) :
       /\ Cardinality(keys) <= MaxRecords
       /\ \E in \in [keys -> RecordInputs], removed \in SUBSET keys :
            results = {[InsertedRecord(k[1], k[2], in[k])
                          EXCEPT !.isActive = k \notin removed] : k \in keys}

DeactivatedSpec == DeactivatedInit /\ [][AggNext]_vars

\* ---- the two versions of the test statistics

\* the band table of the earlier getTestStatistics
gradeOfEarlier(percentage) ==
  IF Geq(percentage, 90) THEN "A+"
  ELSE IF Geq(percentage, 80) THEN "A"
  ELSE IF Geq(percentage, 70) THEN "B"
  ELSE IF Geq(percentage, 60) THEN "C"
  ELSE IF Geq(percentage, 50) THEN "D"
  ELSE "F"

\* the stats object of the earlier getTestStatistics: every record of the
\* test, graded again from its marks and the test's maxMarks
getTestStatisticsEarlier(coll, testId, test) ==
  LET res == {d \in coll : d.test = testId}
      n   == Cardinality(res)
      regraded(d) == gradeOfEarlier(<<d.marksObtained * 100, test.maxMarks>>)
  IN IF n = 0 THEN EmptyStatistics
     ELSE LET totalMarks  == SumInt([d \in res |-> d.marksObtained])
              passedCount == Cardinality({d \in res : d.isPassed})
          IN [totalStudents |-> n,
              averageMarks |-> Fixed1(totalMarks, n),
              averagePercentage |->
                Fixed1(totalMarks * 100, n * test.maxMarks),
              passRate |-> Fixed1(passedCount * 100, n),
              highestMarks |-> MaxOf({d.marksObtained : d \in res}),
              lowestMarks |-> MinOf({d.marksObtained : d \in res}),
              gradeDistribution |->
                [g \in {regraded(d) : d \in res} |->
                   Cardinality({d \in res : regraded(d) = g})]]

\* GET /api/tests/:id/statistics, earlier version
GetTestStatisticsEarlier ==
  /\ out = NoOut
  /\ \E testId \in AggTestIds :
       LET test == TestFindOneActive(testId)
           resp == [handler |-> "getTestStatistics", id |-> testId]
       IN out' = IF test = NoTest THEN [status |-> 404] @@ resp
                 ELSE [status |-> 200,
                       statistics |->
                         getTestStatisticsEarlier(results, testId, test)]
                      @@ resp
  /\ UNCHANGED <<tests, results, req, now, admitted, writes, calc>>

\* how the records of test 1 came to be, with every mark up to its maxMarks
StatsRecordInputs ==
  [by : {"submitTestMarks", "addOrUpdateMarks"}, marks : 0..3, at : {1, 2}]

\* records of test 1
StatsInit ==
  /\ tests = AggTests
  /\ req = [r \in ReqIds |-> IdleReq]
  /\ now = 0
  /\ admitted = 0
  /\ writes = <<>>
  /\ calc = NoCalc
  /\ out = NoOut
  /\ \E keys \in SUBSET ({1} \X AggStudents) :
       /\ Cardinality(keys) <= MaxRecords
       /\ \E in \in [keys -> StatsRecordInputs] :
            results = {InsertedRecord(k[1], k[2], in[k]) : k \in keys}

StatsNext ==
  \/ GetClassStatistics
  \/ GetTestStatistics
  \/ GetTestStatisticsEarlier

StatsSpec == StatsInit /\ [][StatsNext]_vars

\* ---- aggregations on the store the handlers write
\* The student aggregations called once at any moment of Spec.

\* the tests of Spec, both of subject 10
FlowTests == [t \in DOMAIN InitTests |-> [subject |-> 10] @@ InitTests[t]]

FlowInit ==
  /\ tests = FlowTests
  /\ results = {}
  /\ req = [r \in ReqIds |-> IdleReq]
  /\ now = 0
  /\ admitted = 0
  /\ writes = <<>>
  /\ calc = NoCalc
  /\ out = NoOut

FlowNext ==
  \/ Next
  \/ GetStudentPerformance
  \/ GetStudentDashboard

FlowSpec == FlowInit /\ [][FlowNext]_vars

\* ---- repeated calls
\* The aggregations called again and again, in any order, on one store;
\* calc holds the response sent before the current call.

\* the records of one student, on any of the tests
RepeatInit ==
  /\ tests = AggTests
  /\ req = [r \in ReqIds |-> IdleReq]
  /\ now = 0
  /\ admitted = 0
  /\ writes = <<>>
  /\ calc = NoCalc
  /\ out = NoOut
  /\ \E keys \in SUBSET ({1, 2, 3} \X {1}) :
       /\ Cardinality(keys) <= MaxRecords
       /\ \E in \in [keys -> RecordInputs] :
            results = {InsertedRecord(k[1], k[2], in[k]) : k \in keys}

\* res.json(...): the response is sent and the handler returns
Respond ==
  /\ out # NoOut
  /\ calc' = out
  /\ out' = NoOut
  /\ UNCHANGED <<tests, results, req, now, admitted, writes>>

RepeatNext ==
  \/ GetClassStatistics
  \/ GetTestStatistics
  \/ GetStudentPerformance
  \/ GetResultsAnalysis
  \/ GetStudentDashboard
  \/ GetSubjectWisePerformance
  \/ GetStudentPerformanceSummary
  \/ Respond

RepeatSpec == RepeatInit /\ [][RepeatNext]_vars

\* ------------------------------------------------------------ claims ----
\* equality of two numbers kept as <<n, d>>
NumEq(p, q) == p[1] * q[2] = q[1] * p[2]

Running == {"loop", "insert", "save"}

\* C1: in every reachable state the collection holds at most one document
\* per (test, student): a write to a key that has a document never adds a
\* second one.
C1_OneRecordPerKey ==
  \A d1, d2 \in results :
    (d1.test = d2.test /\ d1.student = d2.student) => d1 = d2

\* a request is about to insert a key that another request has inserted
\* since its upsert found no document
C1_Witness ==
  \E r \in ReqIds :
    /\ req[r].pc = "insert"
    /\ Cardinality(Matching(results, req[r].testId, req[r].cur.student)) = 1

\* C2: every stored document carries percentage = marksObtained / maxMarks
\* * 100 rounded to 2 decimals, the grade of the band table for that
\* percentage, and isPassed = (marksObtained >= passingMarks), computed
\* from the maxMarks and passingMarks stored on it.
C2_DerivedFields ==
  \A d \in results :
    /\ Has(d, "maxMarks") /\ Has(d, "passingMarks")
    /\ Has(d, "percentage") /\ Has(d, "grade") /\ Has(d, "isPassed")
    /\ NumEq(d.percentage, Round2(d.marksObtained * 100, d.maxMarks))
    /\ d.grade = gradeOf(d.percentage)
    /\ d.isPassed = (d.marksObtained >= d.passingMarks)

\* C3: a submitTestMarks batch on an active test is processed entry by
\* entry: an invalid entry is counted in errors, leaves the collection
\* unchanged and does not end the loop; a valid entry whose database
\* operations succeed is counted in processed and its document is stored;
\* the response is sent after the last entry and, when no database
\* operation failed, reports processed = N - K and errors = K.
C3_Step ==
  \A r \in ReqIds :
    req[r].handler = "submitTestMarks" =>
      /\ (req'[r].invalid = req[r].invalid + 1) =>
           /\ results' = results
           /\ req'[r].errors = req[r].errors + 1
           /\ req'[r].saved = req[r].saved
           /\ req'[r].pc = "loop"
      /\ (/\ req'[r].i = req[r].i + 1
          /\ req'[r].invalid = req[r].invalid
          /\ req'[r].failed = req[r].failed) =>
           /\ req'[r].saved = req[r].saved + 1
           /\ req'[r].errors = req[r].errors
           /\ \E d \in results' :
                /\ d.test = req[r].testId
                /\ d.gradedBy = req[r].user
                /\ ~EntryInvalid(d.student, <<d.marksObtained>>, req[r].test)
      /\ (req[r].pc = "loop" /\ req'[r].pc = "done") =>
           /\ req[r].i = req[r].n
           /\ req'[r].status = 200
           /\ req[r].failed = 0 =>
                /\ req'[r].saved = req[r].n - req[r].invalid
                /\ req'[r].errors = req[r].invalid

C4_Resubmission ==
  \A k \in DOMAIN writes :
    writes[k].changed =>
      LET ds == Matching(results, k[1], k[2])
      IN /\ Cardinality(ds) = 1
         /\ \A d \in ds :
              /\ d.marksObtained = writes[k].marks
              /\ d.submittedAt = writes[k].firstAt
              /\ d.gradedAt = writes[k].at

\* C5: a submission whose test id names no test, or a test that is not
\* active when the handler looks it up, is not processed: no handler goes
\* on to its entries, so it creates or changes no document.
C5_TestNotFound ==
  \A r \in ReqIds :
    req[r].pc \in Running =>
      /\ req[r].testId \in DOMAIN tests
      /\ req[r].test.isActive

\* C6: every stored document has 0 <= marksObtained <= the maxMarks its
\* test had when the document was last written.
C6_MarksInRange ==
  \A d \in results :
    /\ 0 <= d.marksObtained
    /\ d.marksObtained <= writes[<<d.test, d.student>>].max

\* C7: every stored document references a user that exists, is active and
\* has role student.
C7_StudentValid ==
  \A d \in results :
    /\ d.student \in DOMAIN users
    /\ users[d.student].isActive
    /\ users[d.student].role = "student"

\* C8: every stored document carries marksObtained together with all of
\* percentage, grade and isPassed.
C8_FullyFormed ==
  \A d \in results :
    LET derived == {"percentage", "grade", "isPassed"}
    IN \/ {"marksObtained"} \cup derived \subseteq DOMAIN d
       \/ ({"marksObtained"} \cup derived) \cap DOMAIN d = {}

\* C9: every entry of a submitTestMarks batch ends either counted in
\* processed with its document written, or counted in errors with the
\* collection unchanged; the response reports processed + errors = N.
C9_Step ==
  \A r \in ReqIds :
    req[r].handler = "submitTestMarks" =>
      /\ (req'[r].i = req[r].i + 1) =>
           \/ /\ req'[r].saved = req[r].saved + 1
              /\ req'[r].errors = req[r].errors
              /\ \E d \in results' :
                   d.test = req[r].testId /\ d.gradedBy = req[r].user
           \/ /\ req'[r].errors = req[r].errors + 1
              /\ req'[r].saved = req[r].saved
              /\ results' = results
      /\ (req[r].pc = "loop" /\ req'[r].pc = "done") =>
           req'[r].saved + req'[r].errors = req[r].n

C9_EntryOutcomes == [][C9_Step]_vars

\* C10: when all requests have finished, a key that two submissions wrote
\* has a document whose marksObtained, isPassed, grade, percentage,
\* gradedBy and gradedAt are all those of the last writer.
C10_LastWriterWins ==
  (\A r \in ReqIds : req[r].pc = "done") =>
    \A k \in DOMAIN writes :
      writes[k].other =>
        \A d \in Matching(results, k[1], k[2]) :
          LET w == writes[k]
              percentage == Round2(w.marks * 100, tests[k[1]].maxMarks)
          IN /\ d.marksObtained = w.marks
             /\ Has(d, "gradedBy") /\ d.gradedBy = w.by
             /\ Has(d, "gradedAt") /\ d.gradedAt = w.at
             /\ Has(d, "isPassed")
             /\ d.isPassed = (w.marks >= tests[k[1]].passingMarks)
             /\ Has(d, "percentage") /\ NumEq(d.percentage, percentage)
             /\ Has(d, "grade") /\ d.grade = gradeOf(percentage)

\* C11: when every submission so far succeeded, the record of a key carries
\* as gradedBy the grader of the submission that wrote the key last.
C11_GradedByLatest ==
  (\A r \in ReqIds : req[r].errors = 0) =>
    \A k \in DOMAIN writes :
      \A d \in Matching(results, k[1], k[2]) :
        Has(d, "gradedBy") /\ d.gradedBy = writes[k].by

\* C12: the record of a key carries the academicYear "Y-(Y+1)" of the
\* calendar year Y of the key's first write, whatever was submitted for the
\* key afterwards.
C12_AcademicYearKept ==
  \A k \in DOMAIN writes :
    \A d \in Matching(results, k[1], k[2]) :
      LET Y == YearOf(writes[k].firstAt)
      IN Has(d, "academicYear") /\ d.academicYear = <<Y, Y + 1>>

\* C13: an updateTest that changes a test leaves the collection of records
\* unchanged, and every record of that test has its own maxMarks and
\* passingMarks stored on it.
C13_Step ==
  \A r \in ReqIds :
    (req[r].handler = "updateTest" /\ tests' # tests) =>
      /\ results' = results
      /\ \A d \in results :
           d.test = req[r].testId =>
             Has(d, "maxMarks") /\ Has(d, "passingMarks")

C13_UpdateTestFrame == [][C13_Step]_vars

\* C14: deleteTest looks for an active record of the test.  When there is
\* one, the request is answered 400 and the test and all records stay as
\* they are; when there is none, the test's isActive becomes false and
\* nothing else changes.  Only the test's creator or an admin gets that
\* far, and no step of deleteTest changes a record.
C14_Step ==
  \A r \in ReqIds :
    req[r].handler = "deleteTest" =>
      /\ req'[r] # req[r] => results' = results
      /\ (req[r].pc = "found" /\ req'[r].pc = "checked") =>
           /\ req'[r].cur.hasResults =
                (\E d \in results : d.test = req[r].testId /\ d.isActive)
           /\ \/ users[req[r].user].role = "admin"
              \/ tests[req[r].testId].createdBy = req[r].user
      /\ (req[r].pc = "checked" /\ req'[r].pc = "done") =>
           IF req[r].cur.hasResults
           THEN req'[r].status = 400 /\ tests' = tests
           ELSE \/ req'[r].status = 500 /\ tests' = tests
                \/ /\ req'[r].status = 200
                   /\ tests' = [tests EXCEPT ![req[r].testId].isActive = FALSE]

C14_DeleteTest == [][C14_Step]_vars

\* a deleteTest request has found an active record of its test
C14_Witness ==
  \E r \in ReqIds :
    /\ req[r].handler = "deleteTest" /\ req[r].pc = "checked"
    /\ req[r].cur.hasResults
    /\ \E d \in results : d.test = req[r].testId

\* C15: for integer marksObtained in 0..maxMarks, maxMarks >= 1 and any
\* passingMarks, both grade computations return a percentage within
\* [0, 100] that is marksObtained / maxMarks * 100 up to rounding to 2
\* decimals, the grade of the first band that percentage reaches, and
\* isPassed = (marksObtained >= passingMarks); 45 of 100 with passing marks
\* 40 gives percentage 45, grade C and isPassed true.
C15_GradeComputation ==
  calc.by \in {"preSave", "addOrUpdateMarks"} =>
    LET p == calc.percentage
        exact == 100 * calc.marksObtained * p[2]
        diff == p[1] * calc.maxMarks - exact
    IN /\ p[2] > 0 /\ 0 <= p[1] /\ p[1] <= 100 * p[2]
       /\ 200 * diff <= p[2] * calc.maxMarks
       /\ 200 * (0 - diff) <= p[2] * calc.maxMarks
       /\ calc.grade =
            (IF p[1] >= 90 * p[2] THEN "A+"
             ELSE IF p[1] >= 80 * p[2] THEN "A"
             ELSE IF p[1] >= 70 * p[2] THEN "B+"
             ELSE IF p[1] >= 60 * p[2] THEN "B"
             ELSE IF p[1] >= 50 * p[2] THEN "C+"
             ELSE IF p[1] >= 40 * p[2] THEN "C"
             ELSE IF p[1] >= 35 * p[2] THEN "D"
             ELSE "F")
       /\ calc.isPassed = (calc.marksObtained >= calc.passingMarks)
       /\ (calc.marksObtained = 45 /\ calc.maxMarks = 100
             /\ calc.passingMarks = 40) =>
            /\ p[1] = 45 * p[2]
            /\ calc.grade = "C"
            /\ calc.isPassed

\* pre('save') has graded 45 of 100 with passing marks 40
C15_Witness ==
  /\ calc.by = "preSave"
  /\ calc.marksObtained = 45 /\ calc.maxMarks = 100 /\ calc.passingMarks = 40
  /\ calc.grade = "C"

\* value of a number of a response as <<n, d>>, for numbers that are not NaN
IsNumber(x) == Len(x) >= 2

\* |x - a / b| <= 1 / 20: x is a / b up to rounding to one decimal
Near(x, a, b) ==
  /\ 20 * (x[1] * b - a * x[2]) <= x[2] * b
  /\ 20 * (a * x[2] - x[1] * b) <= x[2] * b

\* C16: the class statistics of a test with n >= 1 active records report
\* totalStudents = n, passRate = 100 * (records with isPassed) / n,
\* averagePercentage = the mean of the records' marksObtained / maxMarks *
\* 100, averageMarks = the mean, highestMarks the maximum and lowestMarks the
\* minimum of marksObtained (averages up to rounding for display); two
\* records with marks 3 and 1 of 3 and passing marks 2 give passRate 50.
C16_ClassStatistics ==
  (/\ Has(out, "statistics")
   /\ ActiveResults(results, out.id) # {}) =>
    LET res   == ActiveResults(results, out.id)
        n     == Cardinality(res)
        st    == out.statistics
        marks == {d.marksObtained : d \in res}
        total == SumInt([d \in res |-> d.marksObtained])
    IN /\ st.totalStudents = n
       /\ IsNumber(st.passRate)
       /\ Near(st.passRate, 100 * Cardinality({d \in res : d.isPassed}), n)
       /\ IsNumber(st.averageMarks) /\ Near(st.averageMarks, total, n)
       /\ IsNumber(st.averagePercentage)
       /\ Near(st.averagePercentage, 100 * total,
               n * PastTests[out.id].maxMarks)
       /\ st.highestMarks \in marks /\ \A m \in marks : m <= st.highestMarks
       /\ st.lowestMarks \in marks /\ \A m \in marks : st.lowestMarks <= m
       /\ marks = {1, 3} /\ n = 2 => Near(st.passRate, 50, 1)

\* the records of the student an aggregation was asked about
RecordsOf(student) == {d \in results : d.student = student}

IsZero(x) == IsNumber(x) /\ x[1] = 0

\* C17: without records every aggregation answers with zeros and empty
\* lists and does not fail: the class statistics of a test without active
\* records have totalStudents, averageMarks, averagePercentage, passRate,
\* highestMarks and lowestMarks 0 and an empty gradeDistribution; the
\* summary, the subject-wise performance and the monthly progress of a
\* student without records are zeros or empty lists.
C17_EmptyDefaults ==
  /\ (Has(out, "statistics") /\ ActiveResults(results, out.id) = {}) =>
       LET st == out.statistics
       IN /\ out.status = 200
          /\ st.totalStudents = 0
          /\ st.highestMarks = 0 /\ st.lowestMarks = 0
          /\ IsZero(st.averageMarks)
          /\ IsZero(st.averagePercentage)
          /\ IsZero(st.passRate)
          /\ DOMAIN st.gradeDistribution = {}
  /\ (/\ Has(out, "handler")
      /\ out.handler \in {"getStudentPerformance", "getResultsAnalysis",
                          "getStudentDashboard", "getSubjectWisePerformance",
                          "getStudentPerformanceSummary"}
      /\ out.status \notin {403, 404}
      /\ RecordsOf(out.id) = {}) =>
       /\ out.status = 200
       /\ Has(out, "subjectPerformance") => out.subjectPerformance = <<>>
       /\ Has(out, "monthlyPerformance") => out.monthlyPerformance = <<>>
       /\ Has(out, "analysis") =>
            /\ out.analysis.totalTests = 0
            /\ IsZero(out.analysis.averageScore)
            /\ IsZero(out.analysis.improvement)
            /\ out.analysis.strengths = <<>>
            /\ out.analysis.recommendations = <<>>
       /\ Has(out, "overallPercentage") =>
            /\ IsZero(out.overallPercentage) /\ IsZero(out.passRate)
            /\ out.totalTests = 0 /\ out.passedTests = 0
       /\ Has(out, "summary") =>
            /\ out.summary.totalTests = 0 /\ out.summary.passedTests = 0
            /\ out.summary.totalMarks = 0 /\ out.summary.totalMaxMarks = 0
            /\ IsZero(out.summary.averageScore)

\* the class statistics of a test without records were asked for while
\* other tests have records
C17_Witness ==
  /\ Has(out, "statistics") /\ out.handler = "getClassStatistics"
  /\ ActiveResults(results, out.id) = {}
  /\ results # {}

MonthlyOf(o) ==
  IF Has(o, "monthlyPerformance") THEN o.monthlyPerformance
  ELSE IF Has(o, "analysis") /\ Has(o.analysis, "monthlyProgress")
  THEN o.analysis.monthlyProgress
  ELSE <<>>

\* C19: a record whose test is no longer in the tests collection is left
\* out of the student`s subject-wise performance and monthly progress: the
\* aggregation answers with a result computed from the remaining records.
C19_RemovedExcluded ==
  (/\ Has(out, "handler")
   /\ out.handler \in {"getStudentPerformance", "getResultsAnalysis",
                       "getStudentDashboard"}
   /\ out.status \notin {403, 404}
   /\ \E d \in RecordsOf(out.id) : d.test \notin DOMAIN tests) =>
    LET remaining == {d \in RecordsOf(out.id) : d.test \in DOMAIN tests}
        mp        == MonthlyOf(out)
    IN /\ out.status = 200
       /\ Has(out, "subjectPerformance") =>
            Len(out.subjectPerformance) =
              Cardinality({tests[d.test].subject : d \in remaining})
       /\ out.handler # "getStudentDashboard" =>
            SumInt([j \in 1..Len(mp) |-> mp[j].testsCount]) =
              Cardinality(remaining)

\* the year and month a period string denotes, as months since year 0
MonthsOf(period) ==
  12 * (1000 * period[1] + 100 * period[2] + 10 * period[3] + period[4])
    + 10 * period[5] + period[6]

\* C20: the monthly progress of a student groups the student`s records by
\* the year and month of their submittedAt: exactly one entry per period, in
\* strictly ascending order of the periods, the testsCount of an entry the
\* number of records of its period, so that they sum to the number of the
\* student`s records.
C20_MonthlyProgress ==
  (/\ Has(out, "handler")
   /\ out.handler \in {"getStudentPerformance", "getResultsAnalysis"}
   /\ out.status = 200
   /\ RecordsOf(out.id) # {}) =>
    LET recs    == RecordsOf(out.id)
        at(d)   == 12 * YearOf(d.submittedAt) + MonthOf(d.submittedAt)
        periods == {at(d) : d \in recs}
        mp      == MonthlyOf(out)
    IN /\ Len(mp) = Cardinality(periods)
       /\ \A i, j \in 1..Len(mp) :
            i < j => MonthsOf(mp[i].month) < MonthsOf(mp[j].month)
       /\ \A j \in 1..Len(mp) :
            mp[j].testsCount =
              Cardinality({d \in recs : at(d) = MonthsOf(mp[j].month)})
       /\ SumInt([j \in 1..Len(mp) |-> mp[j].testsCount]) = Cardinality(recs)

\* a student with a record of December 2024 and one of January 2025 got
\* the two periods in that order
C20_Witness ==
  /\ Has(out, "handler") /\ out.handler = "getStudentPerformance"
  /\ out.status = 200
  /\ Len(out.monthlyPerformance) = 2
  /\ out.monthlyPerformance[1].month = <<2, 0, 2, 4, 1, 2>>
  /\ out.monthlyPerformance[2].month = <<2, 0, 2, 5, 0, 1>>

\* C21: class statistics and the listings and aggregations by test and by
\* student take only records with isActive = true into account: every
\* count is a count of active records and every returned list holds only
\* active records.
C21_ActiveOnly ==
  (Has(out, "handler") /\ out.status = 200) =>
    LET act    == {d \in results : d.isActive}
        ofTest == Cardinality({d \in act : d.test = out.id})
        ofStud == Cardinality({d \in act : d.student = out.id})
        ids    == {d._id : d \in act}
        mp     == MonthlyOf(out)
    IN /\ Has(out, "statistics") => out.statistics.totalStudents = ofTest
       /\ Has(out, "list") =>
            \A i \in 1..Len(out.list) : out.list[i] \in ids
       /\ Has(out, "overallResults") =>
            \A i \in 1..Len(out.overallResults) : out.overallResults[i] \in ids
       /\ Has(out, "recentResults") =>
            \A i \in 1..Len(out.recentResults) : out.recentResults[i] \in ids
       /\ Has(out, "subjectPerformance") =>
            SumInt([j \in 1..Len(out.subjectPerformance) |->
                      out.subjectPerformance[j].totalTests]) = ofStud
       /\ Has(out, "monthlyPerformance") =>
            SumInt([j \in 1..Len(mp) |-> mp[j].testsCount]) = ofStud
       /\ Has(out, "analysis") => out.analysis.totalTests = ofStud
       /\ Has(out, "totalTests") => out.totalTests = ofStud
       /\ Has(out, "completedTests") => out.completedTests = ofStud
       /\ Has(out, "summary") => out.summary.totalTests = ofStud

\* what a response says, apart from the order of documents that the database
\* returns in no particular order
Said(o) ==
  IF Has(o, "statistics") \/ Has(o, "summary") THEN o
  ELSE IF Has(o, "analysis")
  THEN [status |-> o.status, totalTests |-> o.analysis.totalTests,
        averageScore |-> o.analysis.averageScore,
        monthlyProgress |-> MonthlyOf(o)]
  ELSE IF Has(o, "subjectPerformance")
  THEN [status |-> o.status, monthlyProgress |-> MonthlyOf(o),
        subjectPerformance |->
          {[f \in {"subject", "totalMarks", "totalMaxMarks", "totalTests",
                   "passedTests", "percentage", "passRate"} |->
              o.subjectPerformance[j][f]] :
             j \in 1..Len(o.subjectPerformance)}]
  ELSE [status |-> o.status]

\* C22: class statistics, student summary, subject-wise performance and
\* monthly progress change neither the records nor the tests, and a call
\* answers as the call of the same aggregation for the same test or student
\* before it did, whatever was called in between.
C22_Step ==
  /\ results' = results
  /\ tests' = tests
  /\ (/\ out' # NoOut
      /\ Has(calc, "handler")
      /\ calc.handler = out'.handler /\ calc.id = out'.id
      /\ calc.status # 403 /\ out'.status # 403) =>
       Said(out') = Said(calc)

RecordsAt(coll, k) == {d \in coll : d.test = k[1] /\ d.student = k[2]}

\* C23 (frame): a submission step creates, changes or removes records of
\* the key it writes only: the records of every other key stay as they are.
C23_Step ==
  \A t \in TestIdInputs, s \in StudentInputs :
    LET k == <<t, s>>
    IN (\/ k \notin DOMAIN writes'
        \/ (k \in DOMAIN writes /\ writes'[k] = writes[k])) =>
         RecordsAt(results', k) = RecordsAt(results, k)

\* every write made so far went to a key of its own: the requests saved as
\* many entries as there are written keys, and no entry was reported as an
\* error (an entry is, too, when its write was made and its populate failed)
DifferentKeys ==
  /\ \A r \in ReqIds : req[r].errors = 0 /\ req[r].failed = 0
  /\ SumInt([r \in ReqIds |-> req[r].saved]) = Cardinality(DOMAIN writes)

\* C23 (result): whatever the order or interleaving of submissions for
\* different keys, each written key has exactly one record, and it carries
\* the marks written to that key.
C23_Keys ==
  DifferentKeys =>
    \A k \in DOMAIN writes :
      /\ Cardinality(RecordsAt(results, k)) = 1
      /\ \A d \in RecordsAt(results, k) : d.marksObtained = writes[k].marks

\* C23: two submissions for different (test, student) keys are independent
\* in either order and in every interleaving.
C23_Independent == [][C23_Step /\ C23_Keys']_vars

\* two requests wrote one key each and both records are there
C23_Witness ==
  \E k1, k2 \in DOMAIN writes :
    /\ k1 # k2
    /\ writes[k1].by # writes[k2].by
    /\ RecordsAt(results, k1) # {} /\ RecordsAt(results, k2) # {}
    /\ \A r \in ReqIds : req[r].pc = "done"
    /\ DifferentKeys

\* C24: in every reachable state, under any interleaving of deleteTest with
\* marks submissions for the same test, no test with isActive = false has an
\* active record.
C24_NoRecordsOfDeletedTest ==
  \A t \in DOMAIN tests :
    ~tests[t].isActive =>
      ~\E d \in results : d.test = t /\ Has(d, "isActive") /\ d.isActive

\* C25: the gradeDistribution of the test statistics counts every record of
\* the test under the grade that the 8-band table gives to its marksObtained
\* / maxMarks percentage, and that is the grade stored on the record.
C25_OneGradeTable ==
  (/\ Has(out, "statistics")
   /\ out.handler = "getTestStatistics") =>
    LET res      == ActiveResults(results, out.id)
        band(d)  == gradeOf(<<100 * d.marksObtained,
                              PastTests[d.test].maxMarks>>)
        dist     == out.statistics.gradeDistribution
    IN /\ \A d \in res : Has(d, "grade") /\ d.grade = band(d)
       /\ DOMAIN dist = {band(d) : d \in res}
       /\ \A g \in DOMAIN dist :
            dist[g] = Cardinality({d \in res : band(d) = g})

\* C26: after any sequence of createTest and updateTest calls every active
\* test has 0 <= passingMarks < maxMarks, also after an updateTest that
\* changes one of the two fields only.
C26_PassingBelowMax ==
  \A t \in DOMAIN tests :
    tests[t].isActive =>
      0 <= tests[t].passingMarks /\ tests[t].passingMarks < tests[t].maxMarks

PercentageOfSums(p, a, b) ==
  /\ IsNumber(p)
  /\ 0 <= p[1] /\ p[1] <= 100 * p[2]
  /\ b > 0 /\ Near(p, 100 * a, b)

\* C28 (step): when a student aggregation answers, every percentage of its
\* subject-wise performance and of its monthly progress, and the overall
\* percentage, lies within [0, 100] and is 100 * (sum of marksObtained) /
\* (sum of the maxMarks the records were graded against).  All tests are of
\* one subject, so the subject-wise list has one entry, over all records of
\* the student; the monthly list is looked at when it has one entry too.
C28_Step ==
  (/\ out = NoOut /\ out' # NoOut
   /\ out'.status = 200
   /\ RecordsOf(out'.id) # {}) =>
    LET recs   == RecordsOf(out'.id)
        marks  == SumInt([d \in recs |-> d.marksObtained])
        graded == SumInt([d \in recs |-> writes[<<d.test, d.student>>].max])
        mp     == MonthlyOf(out')
    IN /\ Has(out', "subjectPerformance") =>
            \A j \in 1..Len(out'.subjectPerformance) :
              PercentageOfSums(out'.subjectPerformance[j].percentage,
                               marks, graded)
       /\ Len(mp) = 1 => PercentageOfSums(mp[1].percentage, marks, graded)
       /\ Has(out', "overallPercentage") =>
            PercentageOfSums(out'.overallPercentage, marks, graded)

\* C28: after any sequence of marks submissions and updateTest calls the
\* reported percentages are within [0, 100] and are those of the marks
\* against the maxMarks the records were graded against.
C28_Percentages == [][C28_Step]_vars

\* the fields of a record that a marks submission decides from the test and
\* the marks
GradedFields ==
  {"marksObtained", "maxMarks", "passingMarks", "percentage", "grade",
   "isPassed"}

\* the record of key k was written by one submission of valid marks, by an
\* active student's entry
WrittenOnce(k) ==
  /\ k \in DOMAIN writes
  /\ ~writes[k].changed /\ ~writes[k].other
  /\ writes[k].at = writes[k].firstAt
  /\ 0 <= writes[k].marks /\ writes[k].marks <= writes[k].max
  /\ UserFindOneStudent(k[2])

\* C29: for the same active test, the same grader and the same valid marks
\* the two submission handlers leave the same record: any two records of
\* one test that were written once with the same marks against the same
\* maxMarks carry the same marksObtained, maxMarks, passingMarks,
\* percentage, grade and isPassed, and each carries its grader as gradedBy.
C29_SameRecord ==
  \A d1, d2 \in results :
    LET k1 == <<d1.test, d1.student>>
        k2 == <<d2.test, d2.student>>
    IN (/\ d1.test = d2.test
        /\ d1.test \in DOMAIN tests /\ tests[d1.test].isActive
        /\ WrittenOnce(k1) /\ WrittenOnce(k2)
        /\ writes[k1].marks = writes[k2].marks
        /\ writes[k1].max = writes[k2].max) =>
          /\ \A f \in GradedFields :
               /\ Has(d1, f) = Has(d2, f)
               /\ Has(d1, f) => d1[f] = d2[f]
          /\ Has(d1, "gradedBy") /\ d1.gradedBy = writes[k1].by
          /\ Has(d2, "gradedBy") /\ d2.gradedBy = writes[k2].by

\* ---- statistics over marks that are not whole numbers
\* parseFloat(marksObtained) of an entry: whole marks, quarter marks and
\* eighth marks within 0..maxMarks, as <<n, d>>
FloatMarks == {<<1, 1>>, <<9, 4>>, <<17, 8>>, <<3, 1>>}

\* how a record of submitTestMarks came to be: its marks and its time
FloatRecordInputs == [marks : FloatMarks, at : {1, 2}]

\* x <= y of two numbers
NumLeq(x, y) == x[1] * y[2] <= y[1] * x[2]

\* Math.max(...) and Math.min(...) of numbers
MaxNum(S) == CHOOSE x \in S : \A y \in S : NumLeq(y, x)
MinNum(S) == CHOOSE x \in S : \A y \in S : NumLeq(x, y)

\* TestResult.getClassStatistics(testId) over such records
getClassStatisticsFloat(coll, testId) ==
  LET res == ActiveResults(coll, testId)
      n   == Cardinality(res)
  IN IF n = 0 THEN EmptyStatistics
     ELSE LET totalMarks      == SumNum([d \in res |-> d.marksObtained])
              totalPercentage == SumNum([d \in res |-> PercentageOf(d)])
              passedCount     == Cardinality({d \in res : d.isPassed})
          IN [totalStudents |-> n,
              averageMarks |-> Round2Num(totalMarks, n),
              averagePercentage |-> Round2Num(totalPercentage, n),
              passRate |-> Round2(passedCount * 100, n),
              highestMarks |-> MaxNum({d.marksObtained : d \in res}),
              lowestMarks |-> MinNum({d.marksObtained : d \in res}),
              gradeDistribution |-> GradeDistribution(res)]

\* the stats object of the getTestStatistics handler over such records
getTestStatisticsFloat(coll, testId) ==
  LET res == ActiveResults(coll, testId)
      n   == Cardinality(res)
  IN IF n = 0 THEN EmptyStatistics
     ELSE LET totalMarks      == SumNum([d \in res |-> d.marksObtained])
              totalPercentage == SumNum([d \in res |-> PercentageOf(d)])
              passedCount     == Cardinality({d \in res : d.isPassed})
          IN [totalStudents |-> n,
              averageMarks |-> Fixed1Num(totalMarks, n),
              averagePercentage |-> Fixed1Num(totalPercentage, n),
              passRate |-> Fixed1(passedCount * 100, n),
              highestMarks |-> MaxNum({d.marksObtained : d \in res}),
              lowestMarks |-> MinNum({d.marksObtained : d \in res}),
              gradeDistribution |-> GradeDistribution(res)]

\* a call of the static
GetClassStatisticsFloat ==
  /\ out = NoOut
  /\ \E testId \in AggTestIds :
       out' = [handler |-> "getClassStatistics", id |-> testId,
               status |-> 200,
               statistics |-> getClassStatisticsFloat(results, testId)]
  /\ UNCHANGED <<tests, results, req, now, admitted, writes, calc>>

\* GET /api/tests/:id/statistics
GetTestStatisticsFloat ==
  /\ out = NoOut
  /\ \E testId \in AggTestIds :
       out' = IF TestFindOneActive(testId) = NoTest
              THEN [handler |-> "getTestStatistics", id |-> testId,
                    status |-> 404]
              ELSE [handler |-> "getTestStatistics", id |-> testId,
                    status |-> 200,
                    statistics |-> getTestStatisticsFloat(results, testId)]
  /\ UNCHANGED <<tests, results, req, now, admitted, writes, calc>>

\* records that submitTestMarks inserted for tests 1 and 2
FloatInit ==
  /\ tests = AggTests
  /\ req = [r \in ReqIds |-> IdleReq]
  /\ now = 0
  /\ admitted = 0
  /\ writes = <<>>
  /\ calc = NoCalc
  /\ out = NoOut
  /\ \E keys \in SUBSET ({1, 2} \X AggStudents) :
       /\ Cardinality(keys) <= MaxRecords
       /\ \E in \in [keys -> FloatRecordInputs] :
            results =
              {UpsertDoc(k, k[1], k[2],
                         testResultData(k[1], k[2], in[k].marks,
                                        PastTests[k[1]], Grader(in[k].at),
                                        in[k].at),
                         <<>>, in[k].at) : k \in keys}

FloatNext == GetClassStatisticsFloat \/ GetTestStatisticsFloat

FloatSpec == FloatInit /\ [][FloatNext]_vars

\* C30: the class statistics of a test are consistent with each other: the
\* counts of gradeDistribution sum to totalStudents, totalStudents is the
\* number of active records of the test, and with at least one record
\* lowestMarks <= averageMarks <= highestMarks.
C30_Consistent ==
  (Has(out, "statistics")) =>
    LET s   == out.statistics
        res == ActiveResults(results, out.id)
    IN /\ SumInt(s.gradeDistribution) = s.totalStudents
       /\ s.totalStudents = Cardinality(res)
       /\ s.totalStudents > 0 =>
            /\ NumLeq(s.lowestMarks, s.averageMarks)
            /\ NumLeq(s.averageMarks, s.highestMarks)

====
